---------------------------- MODULE Spec2Model ----------------------------
(***************************************************************************)
(* Model of streamlit_app.py: the Streamlit front-end of the fraud         *)
(* detection system.  One script run of main() is one step; the cached     *)
(* model loader load_ml_models() is also modelled step by step for         *)
(* concurrent sessions.                                                    *)
(*                                                                         *)
(* Units: amounts are in cents (0.01), times in seconds, the anonymous     *)
(* features v1..v28 in thousandths, probabilities in units of 1/Scale.     *)
(***************************************************************************)
EXTENDS Integers, Sequences, FiniteSets, TLC

(* ----------------------------- bounds ---------------------------------- *)
\* probabilities are k/Scale, k in 0..Scale
Scale == 1
\* largest small amount (in cents) the user types besides the defaults
MaxTypedAmount == 1
\* the standard-normal draws of np.random.normal, in thousandths: either
\* 0 everywhere or 2 * DrawSize everywhere
DrawSize == 1
\* concurrent sessions (script threads) calling load_ml_models
NSessions == 2
\* script reruns per session in the loader specification
MaxReruns == 2

(* ------------------------ program constants ---------------------------- *)
AmountMin == 1
AmountDefault == 10000
TimeMin == 0
TimeMax == 86400
TimeDefault == 3600
SampleAmount == 10050
SampleTime == 3600
FraudAmount == 500000
FraudTime == 25200
NumV == 28

(* ------------------------------ keys ----------------------------------- *)
\* f'v{i}'
FormatV(i) == "v" \o ToString(i)

\* the key names f'v{i}' for i = 1..28, and the index each names
VName == [i \in 1..NumV |-> FormatV(i)]
VIndex == [key \in {VName[i] : i \in 1..NumV} |-> CHOOSE i \in 1..NumV : VName[i] = key]
KeyV(i) == VName[i]

\* the key set built by range(1, 29) in the sample generators
VKeys == {KeyV(i) : i \in 1..NumV}

\* the 30 keys of a transaction record (spec: amount, time, v1..v28)
RecordKeys == {"amount", "time"} \cup VKeys

ModelKeys == {"logistic", "kneighbors", "svc", "tree"}

\* iteration order of the predictions mapping
ModelKeyOrder == <<"logistic", "kneighbors", "svc", "tree">>

Methods == {"Manual", "Ejemplo Normal", "Ejemplo Fraudulento", "JSON"}

(* --------------------------- python values ----------------------------- *)
\* a Python value held by transaction_data: a dict (d: key -> number) or a
\* bare number
Dict(f) == [tag |-> "dict", d |-> f, n |-> 0]
Num(x) == [tag |-> "num", d |-> <<>>, n |-> x]
NoRecord == [tag |-> "none", d |-> <<>>, n |-> 0]

EmptyDict == Dict(<<>>)


\* Python's range(a, b)
Range(a, b) == a..(b - 1)

(* ------------------------------ JSON text ------------------------------ *)
\* A JSON text is a sequence of tokens: braces, commas, "key": number
\* members and bare numbers.
LBrace == [t |-> "lb", k |-> "", v |-> 0]
RBrace == [t |-> "rb", k |-> "", v |-> 0]
Comma == [t |-> "comma", k |-> "", v |-> 0]
Pair(key, x) == [t |-> "pair", k |-> key, v |-> x]
NumTok(x) == [t |-> "num", k |-> "", v |-> x]

\* members of an object: pair (comma pair)*
WellFormedMembers(m) ==
    /\ Len(m) % 2 = 1
    /\ \A i \in 1..Len(m) :
          IF i % 2 = 1 THEN m[i].t = "pair" ELSE m[i].t = "comma"

\* the dict an object's members denote; a repeated key keeps its last value
MembersDict(m) ==
    LET idx == {i \in 1..Len(m) : m[i].t = "pair"}
        last(key) == CHOOSE i \in idx :
                        /\ m[i].k = key
                        /\ \A j \in idx : m[j].k = key => j <= i
    IN  Dict([key \in {m[i].k : i \in idx} |-> m[last(key)].v])

JsonOk(val) == [ok |-> TRUE, value |-> val]
JSONDecodeError == [ok |-> FALSE, value |-> NoRecord]

\* json.loads: the parsed value, or JSONDecodeError
json_loads(text) ==
    IF Len(text) = 1 /\ text[1].t = "num"
    THEN JsonOk(Num(text[1].v))
    ELSE IF Len(text) >= 2 /\ text[1].t = "lb" /\ text[Len(text)].t = "rb"
    THEN LET m == SubSeq(text, 2, Len(text) - 1)
         IN  IF m = <<>> THEN JsonOk(EmptyDict)
             ELSE IF WellFormedMembers(m) THEN JsonOk(MembersDict(m))
             ELSE JSONDecodeError
    ELSE JSONDecodeError

(* ----------------------- sample generators ----------------------------- *)
\* np.random.normal draws: one standard-normal draw per feature, in
\* thousandths (even, so that sigma = 0.5 stays integral)
Draws == {[i \in Range(1, 29) |-> 2 * c] : c \in {0, DrawSize}}

create_sample_transaction(zs) ==
    Dict([key \in {"amount", "time"} \cup {KeyV(i) : i \in Range(1, 29)} |->
            IF key = "amount" THEN SampleAmount
            ELSE IF key = "time" THEN SampleTime
            ELSE zs[VIndex[key]]])

create_fraud_sample(zs) ==
    Dict([key \in {"amount", "time"} \cup {KeyV(i) : i \in Range(1, 29)} |->
            IF key = "amount" THEN FraudAmount
            ELSE IF key = "time" THEN FraudTime
            ELSE LET i == VIndex[key]
                 IN  IF i \in {1, 3, 7, 10, 14} THEN 2 * zs[i]
                     ELSE zs[i] \div 2])

(* --------------------------- model registry ---------------------------- *)
\* the value of `models`: None, or a mapping whose keys are `keys`
NoneValue == [none |-> TRUE, keys |-> {}]
Models(ks) == [none |-> FALSE, keys |-> ks]

Returned(val) == [ok |-> TRUE, value |-> val]
Raised == [ok |-> FALSE, value |-> NoneValue]

\* prediction.load_models: the four handles, or ModelLoadError when an
\* artifact is missing or unreadable (`present`: the loadable artifacts)
load_models(present) ==
    IF ModelKeys \subseteq present THEN Returned(Models(ModelKeys)) ELSE Raised

\* the body of load_ml_models: the try/except around load_models
load_ml_models_body(present) ==
    LET r == load_models(present)
    IN  IF r.ok THEN r.value ELSE NoneValue

\* the st.cache_resource cache of load_ml_models (it takes no arguments,
\* so the cache holds at most one entry)
CacheMiss == [hit |-> FALSE, value |-> NoneValue]
CacheHit(val) == [hit |-> TRUE, value |-> val]

(* ----------------------------- predictions ----------------------------- *)
ProbValues == 0..Scale

\* a model's raw output: svc reports named fields, the others a positional
\* pair (normal, fraud)
Named(f) == [shape |-> "named", fraud |-> f, non_fraud |-> Scale - f, p |-> <<>>]
Positional(f) == [shape |-> "pos", fraud |-> 0, non_fraud |-> 0, p |-> <<Scale - f, f>>]

PredictionsOf(fp) ==
    [key \in ModelKeys |-> IF key = "svc" THEN Named(fp[key]) ELSE Positional(fp[key])]

AllPredictions == {PredictionsOf(fp) : fp \in [ModelKeys -> ProbValues]}

\* the fixed-order feature vector [amount, time, v1, ..., v28]
FeatureOrder == <<"amount", "time">> \o [i \in 1..NumV |-> KeyV(i)]

HasFeatures(td) ==
    td.tag = "dict" /\ \A i \in 1..Len(FeatureOrder) : FeatureOrder[i] \in DOMAIN td.d

PredOk(preds) == [ok |-> TRUE, value |-> preds]
PredRaised == [ok |-> FALSE, value |-> <<>>]

\* prediction.process_transaction: the possible outcomes of scoring td.
\* Either every model answers and the mapping holds all four outputs, or
\* the call raises (no feature vector can be built, or a model fails).
process_transaction(td, models) ==
    IF HasFeatures(td) /\ ModelKeys \subseteq models.keys
    THEN {PredOk(preds) : preds \in AllPredictions} \cup {PredRaised}
    ELSE {PredRaised}

\* predictions.items() / list(predictions.keys()), in mapping order
Items(preds) == SelectSeq(ModelKeyOrder, LAMBDA key : key \in DOMAIN preds)

(* ------------------------ python lookups ------------------------------- *)
Value(x) == [ok |-> TRUE, v |-> x]
Exception == [ok |-> FALSE, v |-> 0]

\* pred['fraud'], pred['non_fraud']
Field(pred, name) ==
    IF pred.shape = "named"
    THEN Value(IF name = "fraud" THEN pred.fraud ELSE pred.non_fraud)
    ELSE Exception

\* pred[i] (0-based)
Index(pred, i) ==
    IF pred.shape = "pos" /\ i < Len(pred.p) THEN Value(pred.p[i + 1]) ELSE Exception

\* predictions[key]
Lookup(preds, key) ==
    IF key \in DOMAIN preds THEN [ok |-> TRUE, v |-> preds[key]] ELSE Exception

(* ----------------------------- numbers --------------------------------- *)
RECURSIVE SumSeq(_)
SumSeq(xs) == IF xs = <<>> THEN 0 ELSE Head(xs) + SumSeq(Tail(xs))

RECURSIVE MaxSeq(_)
MaxSeq(xs) ==
    IF Len(xs) = 1 THEN Head(xs)
    ELSE LET m == MaxSeq(Tail(xs)) IN IF Head(xs) > m THEN Head(xs) ELSE m

\* a number num/den; den = 0 is nan
Ratio(n, d) == [num |-> n, den |-> d]
Prob(f) == Ratio(f, Scale)

\* np.mean of a list of probabilities (nan on the empty list)
np_mean(fs) == Ratio(SumSeq(fs), Len(fs) * Scale)

\* x > 0.5 (False on nan)
GtHalf(x) == x.den > 0 /\ 2 * x.num > x.den

\* round(x * 10^k) to the nearest integer, ties to even
RoundTo(x, pow) ==
    LET q == (pow * x.num) \div x.den
        r == (pow * x.num) % x.den
    IN  IF 2 * r > x.den THEN q + 1
        ELSE IF 2 * r < x.den THEN q
        ELSE IF q % 2 = 0 THEN q ELSE q + 1

\* f"{x:.1%}": tenths of a percent
FormatPct1(x) == RoundTo(x, 1000)
\* f"{x:.3f}", f"{x:.4f}"
Format3f(x) == RoundTo(x, 1000)
Format4f(x) == RoundTo(x, 10000)

(* --------------------------- display elements -------------------------- *)
ErrorEl(msg) == [kind |-> "error", msg |-> msg]
HeaderEl(text) == [kind |-> "header", text |-> text]

\* the first index of rs (a sequence of lookup results) that raised, or
\* Len(rs) + 1 when none did
FirstRaise(rs) ==
    IF \E i \in 1..Len(rs) : ~rs[i].ok
    THEN CHOOSE i \in 1..Len(rs) : ~rs[i].ok /\ \A j \in 1..(i - 1) : rs[j].ok
    ELSE Len(rs) + 1

(* ----------------------- plot_predictions ------------------------------ *)

\* plot_fraud_prob without the svc branch's named field: 'non_fraud' read
plot_fraud_prob_WrongField(preds, model) ==
    IF model = "svc" THEN Field(preds[model], "non_fraud") ELSE Index(preds[model], 1)

\* the branch of the loop in plot_predictions
plot_fraud_prob(preds, model) ==
    IF model = "svc" THEN Field(preds[model], "fraud") ELSE Index(preds[model], 1)

plot_predictions(preds) ==
    LET models == Items(preds)
        rs == [i \in 1..Len(models) |-> plot_fraud_prob(preds, models[i])]
    IN  IF FirstRaise(rs) <= Len(rs) THEN [ok |-> FALSE, fig1 |-> <<>>, fig2 |-> <<>>]
        ELSE LET fraud_probs == [i \in 1..Len(rs) |-> rs[i].v]
                 avg_fraud_prob == np_mean(fraud_probs)
             IN  [ok |-> TRUE,
                  fig1 |-> [kind |-> "bar", x |-> models, y |-> fraud_probs,
                            text |-> [i \in 1..Len(rs) |-> Format3f(Prob(fraud_probs[i]))],
                            red |-> [i \in 1..Len(rs) |-> GtHalf(Prob(fraud_probs[i]))]],
                  fig2 |-> [kind |-> "gauge", value |-> avg_fraud_prob,
                            red |-> GtHalf(avg_fraud_prob)]]

(* --------------------------- Analyze path ------------------------------ *)

\* analyze_fraud_prob reading position 0 (the normal probability)
analyze_fraud_prob_Position0(model_name, pred) ==
    IF model_name = "svc" THEN Field(pred, "fraud") ELSE Index(pred, 0)

\* the branch of the first loop of the Analyze path
analyze_fraud_prob(model_name, pred) ==
    IF model_name = "svc" THEN Field(pred, "fraud") ELSE Index(pred, 1)


\* AlertEl with the threshold test written >= 0.5
AlertEl_AtLeastHalf(avg_fraud_prob, max_fraud_prob) ==
    [kind |-> "alert",
     cls |-> IF avg_fraud_prob.den > 0 /\ 2 * avg_fraud_prob.num >= avg_fraud_prob.den
             THEN "fraud-alert" ELSE "safe-alert",
     avg |-> avg_fraud_prob, max |-> max_fraud_prob,
     avgText |-> FormatPct1(avg_fraud_prob), maxText |-> FormatPct1(max_fraud_prob)]

\* the main alert: fraud-alert iff avg_fraud_prob > 0.5, else safe-alert
AlertEl(avg_fraud_prob, max_fraud_prob) ==
    [kind |-> "alert",
     cls |-> IF GtHalf(avg_fraud_prob) THEN "fraud-alert" ELSE "safe-alert",
     avg |-> avg_fraud_prob, max |-> max_fraud_prob,
     avgText |-> FormatPct1(avg_fraud_prob), maxText |-> FormatPct1(max_fraud_prob)]

model_names == <<"Regresion Logistica", "K-Vecinos", "SVM", "Arbol de Decision">>
model_keys == <<"logistic", "kneighbors", "svc", "tree">>

\* the body of the per-model metric loop: the looked-up pair, or an exception
metric_probs(preds, key) ==
    LET e == Lookup(preds, key)
    IN  IF ~e.ok THEN [ok |-> FALSE, fraud |-> 0, normal |-> 0]
        ELSE LET fr == IF key = "svc" THEN Field(e.v, "fraud") ELSE Index(e.v, 1)
                 no == IF key = "svc" THEN Field(e.v, "non_fraud") ELSE Index(e.v, 0)
             IN  [ok |-> fr.ok /\ no.ok, fraud |-> fr.v, normal |-> no.v]

MetricEl(i, m) ==
    [kind |-> "metric", label |-> model_names[i], key |-> model_keys[i],
     fraud |-> m.fraud, normal |-> m.normal,
     value |-> FormatPct1(Prob(m.fraud)), delta |-> FormatPct1(Prob(m.normal))]


\* the except clause of the Analyze path written `pass`
AnalyzeExcept_Pass(shown) == shown

\* the except clause of the Analyze path
AnalyzeExcept(shown) == Append(shown, ErrorEl("Error al procesar la transaccion"))

\* what the Analyze path renders, given the outcome of process_transaction
AnalyzePath(outcome) ==
    IF ~outcome.ok THEN AnalyzeExcept(<<>>)
    ELSE LET predictions == outcome.value
             items == Items(predictions)
             rs == [i \in 1..Len(items) |->
                      analyze_fraud_prob(items[i], predictions[items[i]])]
         IN  IF FirstRaise(rs) <= Len(rs) \/ Len(rs) = 0 THEN AnalyzeExcept(<<>>)
             ELSE LET fraud_probs == [i \in 1..Len(rs) |-> rs[i].v]
                      avg_fraud_prob == np_mean(fraud_probs)
                      max_fraud_prob == Prob(MaxSeq(fraud_probs))
                      ms == [i \in 1..Len(model_keys) |->
                               metric_probs(predictions, model_keys[i])]
                      stop == FirstRaise(ms)
                      shown == <<AlertEl(avg_fraud_prob, max_fraud_prob),
                                 HeaderEl("Resultados por Modelo")>>
                               \o [i \in 1..(stop - 1) |-> MetricEl(i, ms[i])]
                  IN  IF stop <= Len(ms) THEN AnalyzeExcept(shown) ELSE shown

(* -------------------------- Visualize path ----------------------------- *)
\* the branch of the table loop
table_probs(model_name, pred) ==
    LET no == IF model_name = "svc" THEN Field(pred, "non_fraud") ELSE Index(pred, 0)
        fr == IF model_name = "svc" THEN Field(pred, "fraud") ELSE Index(pred, 1)
    IN  [ok |-> no.ok /\ fr.ok, fraud |-> fr.v, normal |-> no.v]

TableRow(model_name, m) ==
    [Modelo |-> model_name, fraud |-> m.fraud, normal |-> m.normal,
     ProbabilidadNormal |-> Format4f(Prob(m.normal)),
     ProbabilidadFraude |-> Format4f(Prob(m.fraud)),
     Prediccion |-> IF GtHalf(Prob(m.fraud)) THEN "FRAUDE" ELSE "NORMAL"]

\* the except clause of the Visualize path
VisualizeExcept(shown) == Append(shown, ErrorEl("Error al generar visualizaciones"))

\* what the Visualize path renders, given the outcome of process_transaction
VisualizePath(outcome) ==
    IF ~outcome.ok THEN VisualizeExcept(<<>>)
    ELSE LET predictions == outcome.value
             head == <<HeaderEl("Visualizaciones")>>
             figs == plot_predictions(predictions)
         IN  IF ~figs.ok THEN VisualizeExcept(head)
             ELSE LET items == Items(predictions)
                      ms == [i \in 1..Len(items) |->
                               table_probs(items[i], predictions[items[i]])]
                      shown == head \o <<figs.fig1, figs.fig2,
                                         HeaderEl("Tabla Detallada de Predicciones")>>
                  IN  IF FirstRaise(ms) <= Len(ms) THEN VisualizeExcept(shown)
                      ELSE Append(shown,
                             [kind |-> "table",
                              rows |-> [i \in 1..Len(ms) |-> TableRow(items[i], ms[i])]])

(* ------------------------------- state --------------------------------- *)
VARIABLES
    artifacts,  \* the model artifacts that load_models can read
    cache,      \* the st.cache_resource entry of load_ml_models
    loadCount,  \* how many times load_models has been executed
    widgets,    \* the session's widget values
    typed,      \* the amount the user last typed into the amount field
    display,    \* what the last script run rendered
    calls,      \* the process_transaction calls of the last script run
    pc,         \* loader specification: where each session's thread is
    ret,        \* loader specification: what load_ml_models last returned
    lock,       \* loader specification: holder of the cache's compute lock
    reruns      \* loader specification: script runs started per session

vars == <<artifacts, cache, loadCount, widgets, typed, display, calls,
          pc, ret, lock, reruns>>

sessionVars == <<widgets, typed, display, calls>>
loaderVars == <<pc, ret, lock, reruns>>

Sessions == 1..NSessions
NoSession == 0

(* ------------------------------ widgets -------------------------------- *)
\* the widget values of a fresh render with the given input method; a
\* widget that is not rendered in a run loses its value
DefaultWidgets(method) ==
    [method |-> method, amount |-> AmountDefault, time |-> TimeDefault,
     v |-> [i \in 1..NumV |-> 0], json_input |-> <<>>]

\* st.number_input("Monto", min_value=0.01): the widget takes x or refuses it
AmountAccepted(x) == x >= AmountMin

\* st.number_input("Tiempo", min_value=0, max_value=86400)
TimeAccepted(t) == t >= TimeMin /\ t <= TimeMax

(* --------------------- main: the input section ------------------------- *)
\* what the input section leaves behind: transaction_data, the record
\* st.json rendered, the JSON status message; or an exception it let through
Input(td, shown, msg) == [raised |-> FALSE, td |-> td, json |-> shown, jsonMsg |-> msg]
InputRaised == [raised |-> TRUE, td |-> NoRecord, json |-> NoRecord, jsonMsg |-> "none"]

\* data_input_method == "Manual"
ManualSection(w) ==
    LET tab1 == Range(1, 11)
        tab2 == Range(11, 21)
        tab3 == Range(21, 29)
        keys == {"amount", "time"} \cup {KeyV(i) : i \in tab1 \cup tab2 \cup tab3}
    IN  Input(Dict([key \in keys |->
                     IF key = "amount" THEN w.amount
                     ELSE IF key = "time" THEN w.time
                     ELSE w.v[VIndex[key]]]),
              NoRecord, "none")

\* data_input_method == "Ejemplo Normal"
NormalSection(zs) ==
    LET td == create_sample_transaction(zs) IN Input(td, td, "none")

\* data_input_method == "Ejemplo Fraudulento"
FraudSection(zs) ==
    LET td == create_fraud_sample(zs) IN Input(td, td, "none")


\* JsonSection without the except clause: the decode error leaves main
JsonSection_NoExcept(json_input, zs) ==
    IF json_input # <<>>
    THEN LET r == json_loads(json_input)
         IN  IF r.ok THEN Input(r.value, NoRecord, "valid") ELSE InputRaised
    ELSE Input(create_sample_transaction(zs), NoRecord, "none")

\* data_input_method == "JSON"
JsonSection(json_input, zs) ==
    IF json_input # <<>>
    THEN LET r == json_loads(json_input)
         IN  IF r.ok THEN Input(r.value, NoRecord, "valid")
             ELSE Input(create_sample_transaction(zs), NoRecord, "invalid")
    ELSE Input(create_sample_transaction(zs), NoRecord, "none")

InputSection(w, zs) ==
    CASE w.method = "Manual" -> ManualSection(w)
      [] w.method = "Ejemplo Normal" -> NormalSection(zs)
      [] w.method = "Ejemplo Fraudulento" -> FraudSection(zs)
      [] w.method = "JSON" -> JsonSection(w.json_input, zs)

(* ------------------------ main: loading models ------------------------- *)

\* load_ml_models without the cache decorator: every lookup misses
CacheLookup_Uncached(c) == CacheMiss

\* @st.cache_resource: what a lookup of load_ml_models' entry finds
CacheLookup(c) == c

\* load_ml_models() as one call of a single script thread: the cached
\* value, or the body's result, stored
load_ml_models(c, present) ==
    IF CacheLookup(c).hit THEN [value |-> CacheLookup(c).value, cache |-> c, ran |-> 0]
    ELSE LET val == load_ml_models_body(present)
         IN  [value |-> val, cache |-> CacheHit(val), ran |-> 1]


\* main without the `if models is None: return` guard
ModelsIsNone_Never(models) == FALSE

\* `if models is None`
ModelsIsNone(models) == models.none

NotRendered ==
    [status |-> "none", nmodels |-> 0, json |-> NoRecord, jsonMsg |-> "none",
     button |-> "none", results |-> <<>>]

\* an exception left main: Streamlit renders the traceback
Uncaught ==
    [status |-> "exception", nmodels |-> 0, json |-> NoRecord, jsonMsg |-> "none",
     button |-> "none", results |-> <<>>]

\* st.error("No se pudieron cargar los modelos ..."); return
LoadFailed ==
    [status |-> "error", nmodels |-> 0, json |-> NoRecord, jsonMsg |-> "none",
     button |-> "none", results |-> <<>>]

Rendered(models, input, button, results) ==
    [status |-> "ok", nmodels |-> Cardinality(models.keys), json |-> input.json,
     jsonMsg |-> input.jsonMsg, button |-> button, results |-> results]

\* a call process_transaction(td, models) and what it returned or raised
Call(td, models, outcome) == [record |-> td, models |-> models, outcome |-> outcome]

(* -------------------------- main: one script run ----------------------- *)
\* one run of main() with widget values w and the button that triggered it
main(w, button) ==
    LET lr == load_ml_models(cache, artifacts)
        models == lr.value
    IN  /\ cache' = lr.cache
        /\ loadCount' = loadCount + lr.ran
        /\ IF ModelsIsNone(models)
           THEN /\ display' = LoadFailed
                /\ calls' = <<>>
           ELSE \E input \in {InputSection(w, zs) : zs \in Draws} :
                  IF input.raised
                  THEN /\ display' = Uncaught
                       /\ calls' = <<>>
                  ELSE IF button = "none"
                  THEN /\ display' = Rendered(models, input, button, <<>>)
                       /\ calls' = <<>>
                  ELSE \E outcome \in process_transaction(input.td, models) :
                         /\ calls' = <<Call(input.td, models, outcome)>>
                         /\ display' = Rendered(models, input, button,
                                IF button = "analyze" THEN AnalyzePath(outcome)
                                ELSE VisualizePath(outcome))

(* ------------------------------ inputs --------------------------------- *)
\* what the user types into the amount and time fields
TypedAmounts == (-1..MaxTypedAmount) \cup {AmountDefault}
TypedTimes == {TimeMin - 1, TimeMin, TimeMax, TimeMax + 1}
\* the feature field the user edits and the values typed
EditedV == {NumV}
TypedV == {0, 123}

\* a dict over the keys ks with the given amount and time, features 0
JsonRecord(ks, a, t) ==
    [key \in ks |-> IF key = "amount" THEN a ELSE IF key = "time" THEN t ELSE 0]

\* the JSON text of the object with members f[order[1]], f[order[2]], ...
ObjectText(order, f) ==
    <<LBrace>>
    \o [i \in 1..(2 * Len(order) - 1) |->
          IF i % 2 = 1 THEN Pair(order[(i + 1) \div 2], f[order[(i + 1) \div 2]])
          ELSE Comma]
    \o <<RBrace>>

GoodText == ObjectText(FeatureOrder, JsonRecord(RecordKeys, 0, TimeMax))

\* the texts the user pastes into the JSON text area
JsonTexts ==
    { <<>>,
      GoodText,
      \* a key missing, an extra key, a negative amount
      ObjectText(SubSeq(FeatureOrder, 1, Len(FeatureOrder) - 1),
                 JsonRecord(RecordKeys, 0, TimeMin)),
      ObjectText(Append(FeatureOrder, "extra"),
                 JsonRecord(RecordKeys \cup {"extra"}, 0, TimeMin)),
      ObjectText(FeatureOrder, JsonRecord(RecordKeys, -1, TimeMin)),
      \* valid JSON that is no object
      <<NumTok(5)>>,
      \* malformed: unclosed object, trailing comma
      SubSeq(GoodText, 1, Len(GoodText) - 1),
      SubSeq(GoodText, 1, Len(GoodText) - 1) \o <<Comma, RBrace>> }

\* whether every artifact is on disk, or one is missing
ArtifactSets == {ModelKeys, ModelKeys \ {"tree"}}

(* ------------------------------- Init ---------------------------------- *)
NotReturned == [has |-> FALSE, value |-> NoneValue]

Init ==
    /\ artifacts \in ArtifactSets
    /\ cache = CacheMiss
    /\ loadCount = 0
    /\ widgets = DefaultWidgets("Manual")
    /\ typed = AmountDefault
    /\ display = NotRendered
    /\ calls = <<>>
    /\ pc = [s \in Sessions |-> "idle"]
    /\ ret = [s \in Sessions |-> NotReturned]
    /\ lock = NoSession
    /\ reruns = [s \in Sessions |-> 0]

(* ------------------- one session: user interactions -------------------- *)
\* the page is opened (or reloaded): a fresh session's first script run
Open ==
    /\ widgets' = DefaultWidgets("Manual")
    /\ typed' = AmountDefault
    /\ main(DefaultWidgets("Manual"), "none")
    /\ UNCHANGED <<artifacts, loaderVars>>

\* the sidebar selectbox
SelectMethod(m) ==
    /\ display.status \in {"ok", "exception"}
    /\ m # widgets.method
    /\ widgets' = DefaultWidgets(m)
    /\ typed' = AmountDefault
    /\ main(DefaultWidgets(m), "none")
    /\ UNCHANGED <<artifacts, loaderVars>>

\* the amount field: a refused value leaves the widget as it was
TypeAmount(x) ==
    /\ display.status = "ok"
    /\ widgets.method = "Manual"
    /\ typed' = x
    /\ IF AmountAccepted(x) /\ x # widgets.amount
       THEN /\ widgets' = [widgets EXCEPT !.amount = x]
            /\ main([widgets EXCEPT !.amount = x], "none")
       ELSE UNCHANGED <<widgets, display, calls, cache, loadCount>>
    /\ UNCHANGED <<artifacts, loaderVars>>

\* the time field
TypeTime(t) ==
    /\ display.status = "ok"
    /\ widgets.method = "Manual"
    /\ TimeAccepted(t)
    /\ t # widgets.time
    /\ widgets' = [widgets EXCEPT !.time = t]
    /\ main([widgets EXCEPT !.time = t], "none")
    /\ UNCHANGED <<artifacts, typed, loaderVars>>

\* one of the V1..V28 fields
TypeV(i, x) ==
    /\ display.status = "ok"
    /\ widgets.method = "Manual"
    /\ x # widgets.v[i]
    /\ widgets' = [widgets EXCEPT !.v[i] = x]
    /\ main([widgets EXCEPT !.v[i] = x], "none")
    /\ UNCHANGED <<artifacts, typed, loaderVars>>

\* the JSON text area
TypeJson(text) ==
    /\ display.status \in {"ok", "exception"}
    /\ widgets.method = "JSON"
    /\ text # widgets.json_input
    /\ widgets' = [widgets EXCEPT !.json_input = text]
    /\ main([widgets EXCEPT !.json_input = text], "none")
    /\ UNCHANGED <<artifacts, typed, loaderVars>>

\* st.button("Analizar Transaccion")
ClickAnalyze ==
    /\ display.status = "ok"
    /\ main(widgets, "analyze")
    /\ UNCHANGED <<artifacts, widgets, typed, loaderVars>>

\* st.button("Generar Visualizaciones")
ClickVisualize ==
    /\ display.status = "ok"
    /\ main(widgets, "visualize")
    /\ UNCHANGED <<artifacts, widgets, typed, loaderVars>>

Next ==
    \/ Open
    \/ \E m \in Methods : SelectMethod(m)
    \/ \E x \in TypedAmounts : TypeAmount(x)
    \/ \E t \in TypedTimes : TypeTime(t)
    \/ \E i \in EditedV, x \in TypedV : TypeV(i, x)
    \/ \E text \in JsonTexts : TypeJson(text)
    \/ ClickAnalyze
    \/ ClickVisualize

Spec == Init /\ [][Next]_vars

(* ------------- concurrent sessions calling load_ml_models -------------- *)
\* Each session runs the script in its own thread.  st.cache_resource
\* looks the entry up without a lock; on a miss it takes the cache's
\* compute lock, looks again, and only then runs the function and stores
\* what it returned.

\* a session starts a script run and reaches the call of load_ml_models
StartRun(s) ==
    /\ pc[s] = "idle"
    /\ reruns[s] < MaxReruns
    /\ reruns' = [reruns EXCEPT ![s] = @ + 1]
    /\ pc' = [pc EXCEPT ![s] = "read"]
    /\ UNCHANGED <<artifacts, cache, loadCount, ret, lock, sessionVars>>

\* the lock-free lookup
CacheRead(s) ==
    /\ pc[s] = "read"
    /\ IF CacheLookup(cache).hit
       THEN /\ ret' = [ret EXCEPT ![s] = [has |-> TRUE, value |-> CacheLookup(cache).value]]
            /\ pc' = [pc EXCEPT ![s] = "idle"]
       ELSE /\ pc' = [pc EXCEPT ![s] = "wait"]
            /\ UNCHANGED ret
    /\ UNCHANGED <<artifacts, cache, loadCount, lock, reruns, sessionVars>>

\* whether a thread waiting for the compute lock may take it
LockFree(holder) == holder = NoSession

AcquireLock(s) ==
    /\ pc[s] = "wait"
    /\ LockFree(lock)
    /\ lock' = s
    /\ pc' = [pc EXCEPT ![s] = "locked"]
    /\ UNCHANGED <<artifacts, cache, loadCount, ret, reruns, sessionVars>>

\* the second lookup, under the lock
ReadUnderLock(s) ==
    /\ pc[s] = "locked"
    /\ IF CacheLookup(cache).hit
       THEN /\ ret' = [ret EXCEPT ![s] = [has |-> TRUE, value |-> CacheLookup(cache).value]]
            /\ pc' = [pc EXCEPT ![s] = "idle"]
            /\ lock' = NoSession
       ELSE /\ pc' = [pc EXCEPT ![s] = "compute"]
            /\ UNCHANGED <<ret, lock>>
    /\ UNCHANGED <<artifacts, cache, loadCount, reruns, sessionVars>>

\* the body of load_ml_models runs: load_models is executed
Compute(s) ==
    /\ pc[s] = "compute"
    /\ loadCount' = loadCount + 1
    /\ ret' = [ret EXCEPT ![s] = [has |-> FALSE, value |-> load_ml_models_body(artifacts)]]
    /\ pc' = [pc EXCEPT ![s] = "write"]
    /\ UNCHANGED <<artifacts, cache, lock, reruns, sessionVars>>

\* the returned value (None included) is stored and the lock released
WriteResult(s) ==
    /\ pc[s] = "write"
    /\ cache' = CacheHit(ret[s].value)
    /\ ret' = [ret EXCEPT ![s] = [has |-> TRUE, value |-> ret[s].value]]
    /\ lock' = NoSession
    /\ pc' = [pc EXCEPT ![s] = "idle"]
    /\ UNCHANGED <<artifacts, loadCount, reruns, sessionVars>>

\* the artifacts on disk change (a file is added or removed)
ArtifactsChange ==
    /\ \E a \in ArtifactSets : a # artifacts /\ artifacts' = a
    /\ UNCHANGED <<cache, loadCount, loaderVars, sessionVars>>

NextLoad ==
    \/ \E s \in Sessions : StartRun(s)
    \/ \E s \in Sessions : CacheRead(s)
    \/ \E s \in Sessions : AcquireLock(s)
    \/ \E s \in Sessions : ReadUnderLock(s)
    \/ \E s \in Sessions : Compute(s)
    \/ \E s \in Sessions : WriteResult(s)
    \/ ArtifactsChange

SpecLoad == Init /\ [][NextLoad]_vars

(* ======================= properties of the claims ====================== *)
\* the fraud and normal probability a raw output reports, read by its shape
TrueFraud(pred) == IF pred.shape = "named" THEN pred.fraud ELSE pred.p[2]
TrueNormal(pred) == IF pred.shape = "named" THEN pred.non_fraud ELSE pred.p[1]

\* the sum and the largest of the four models' fraud probabilities
FourSum(preds) ==
    TrueFraud(preds["logistic"]) + TrueFraud(preds["kneighbors"])
    + TrueFraud(preds["svc"]) + TrueFraud(preds["tree"])
FourMax(preds) ==
    CHOOSE m \in {TrueFraud(preds[key]) : key \in ModelKeys} :
        \A key \in ModelKeys : TrueFraud(preds[key]) <= m

\* the last run pressed the button and process_transaction returned
Scored(button) ==
    display.status = "ok" /\ display.button = button /\ calls # <<>> /\ calls[1].outcome.ok
\* the last run pressed the button and process_transaction raised
Failed(button) ==
    display.status = "ok" /\ display.button = button /\ calls # <<>> /\ ~calls[1].outcome.ok

ThePredictions == calls[1].outcome.value
Shown(kind) == {i \in 1..Len(display.results) : display.results[i].kind = kind}
TheAlert == display.results[CHOOSE i \in Shown("alert") : TRUE]
TheGauge == display.results[CHOOSE i \in Shown("gauge") : TRUE]

\* x = n/d as numbers
RatioIs(x, n, d) == x.den > 0 /\ x.num * d = n * x.den

(* C1: in the Analyze path exactly one of the fraud alert and the safe       *)
(* result is shown for every scored record, and it is the fraud alert iff   *)
(* the mean of the per-model fraud probabilities is strictly above 0.5.     *)
C1_AlertIffMeanAboveHalf ==
    Scored("analyze") =>
        /\ Cardinality(Shown("alert")) = 1
        /\ TheAlert.cls \in {"fraud-alert", "safe-alert"}
        /\ TheAlert.cls = "fraud-alert" <=>
              2 * FourSum(ThePredictions) > Cardinality(ModelKeys) * Scale

\* a scored record whose mean is exactly 0.5 shows the safe result
C1_Witness ==
    /\ Scored("analyze")
    /\ 2 * FourSum(ThePredictions) = Cardinality(ModelKeys) * Scale
    /\ TheAlert.cls = "safe-alert"

(* C2: for every scored record the displayed mean fraud probability is the  *)
(* arithmetic mean of the four models' fraud probabilities and the          *)
(* displayed maximum is the largest of the four, as numbers and as the      *)
(* formatted texts; the gauge of the Visualize path shows the same mean.    *)
C2_MeanAndMaxOfFour ==
    /\ Scored("analyze") =>
          /\ RatioIs(TheAlert.avg, FourSum(ThePredictions), Cardinality(ModelKeys) * Scale)
          /\ RatioIs(TheAlert.max, FourMax(ThePredictions), Scale)
          /\ TheAlert.avgText = FormatPct1(Ratio(FourSum(ThePredictions),
                                                 Cardinality(ModelKeys) * Scale))
          /\ TheAlert.maxText = FormatPct1(Ratio(FourMax(ThePredictions), Scale))
    /\ Scored("visualize") =>
          RatioIs(TheGauge.value, FourSum(ThePredictions), Cardinality(ModelKeys) * Scale)

\* a scored record whose four probabilities differ: the mean is below the maximum
C2_Witness ==
    /\ Scored("analyze")
    /\ TrueFraud(ThePredictions["svc"]) # TrueFraud(ThePredictions["tree"])
    /\ TheAlert.avg.num * TheAlert.max.den < TheAlert.max.num * TheAlert.avg.den

(* C3: process_transaction is called only after load_models succeeded, and  *)
(* with all four models; when loading failed the run shows the error and    *)
(* neither path calls process_transaction.                                  *)
C3_NoScoringWithoutModels ==
    /\ calls # <<>> =>
          /\ ModelKeys \subseteq artifacts
          /\ calls[1].models = Models(ModelKeys)
    /\ (display.status # "none" /\ ~(ModelKeys \subseteq artifacts)) =>
          /\ display.status = "error"
          /\ calls = <<>>

\* loading failed: None is cached, the error is shown and nothing is scored
C3_Witness ==
    /\ ~(ModelKeys \subseteq artifacts)
    /\ display.status = "error"
    /\ cache = CacheHit(NoneValue)
    /\ calls = <<>>

(* C4: load_models is executed at most once whatever the sessions do, and    *)
(* every call of load_ml_models returns the one cached result, a failed     *)
(* load (None) included: nothing is loaded again.                           *)
C4_LoadedOnce ==
    /\ loadCount <= 1
    /\ \A s \in Sessions :
          ret[s].has => (cache.hit /\ ret[s].value = cache.value)

\* a session that missed the entry and waited for the lock while another
\* session loaded: it holds the lock now and the entry is there
C4_Witness ==
    \E s \in Sessions, t \in Sessions :
        /\ s # t
        /\ pc[s] = "locked"
        /\ ret[t].has
        /\ cache.hit
        /\ loadCount = 1

\* a transaction record as the data model defines it
IsTransactionRecord(td) ==
    /\ td.tag = "dict"
    /\ DOMAIN td.d = RecordKeys
    /\ td.d["amount"] >= 0
    /\ td.d["time"] >= 0 /\ td.d["time"] <= 86400

(* C5: every record passed to process_transaction has exactly the 30 keys   *)
(* amount, time, v1..v28, amount >= 0 and time in [0, 86400]; a record      *)
(* with a missing key, an extra key or a value out of range is not scored.  *)
C5_OnlyValidRecordsScored ==
    calls # <<>> => IsTransactionRecord(calls[1].record)

(* C6: a JSON text that does not parse is answered with the error message,  *)
(* the run completes, and the record it scores is never the text's content  *)
(* but a generated sample.                                                  *)
C6_MalformedJsonRejected ==
    (/\ display.status \in {"ok", "exception"}
     /\ widgets.method = "JSON"
     /\ widgets.json_input # <<>>
     /\ ~json_loads(widgets.json_input).ok) =>
        /\ display.status = "ok"
        /\ display.jsonMsg = "invalid"
        /\ calls # <<>> =>
              calls[1].record \in {create_sample_transaction(zs) : zs \in Draws}

\* a malformed text is in the text area, the error is shown, Analyze ran
C6_Witness ==
    /\ widgets.method = "JSON"
    /\ widgets.json_input # <<>>
    /\ ~json_loads(widgets.json_input).ok
    /\ display.jsonMsg = "invalid"
    /\ display.button = "analyze"
    /\ calls # <<>>

(* C7: in the Manual method the amount field takes every amount >= 0, zero  *)
(* included, and refuses a negative one.                                    *)
C7_ZeroAmountAccepted ==
    (display.status = "ok" /\ widgets.method = "Manual") =>
        /\ typed >= 0 => widgets.amount = typed
        /\ typed < 0 => widgets.amount # typed

\* the complete result of the Analyze path: the alert over four models and
\* one metric per model key
CompleteAnalyze(r) ==
    /\ Len(r) = 2 + Cardinality(ModelKeys)
    /\ r[1].kind = "alert"
    /\ r[1].avg.den = Cardinality(ModelKeys) * Scale
    /\ r[2].kind = "header"
    /\ \A i \in 3..Len(r) : r[i].kind = "metric"
    /\ {r[i].key : i \in 3..Len(r)} = ModelKeys

\* the complete result of the Visualize path: both charts over four models
\* and the table with one row per model
CompleteVisualize(r) ==
    /\ Len(r) = 5
    /\ r[1].kind = "header"
    /\ r[2].kind = "bar"
    /\ {r[2].x[i] : i \in 1..Len(r[2].x)} = ModelKeys
    /\ Len(r[2].y) = Cardinality(ModelKeys)
    /\ r[3].kind = "gauge"
    /\ r[3].value.den = Cardinality(ModelKeys) * Scale
    /\ r[4].kind = "header"
    /\ r[5].kind = "table"
    /\ {r[5].rows[i].Modelo : i \in 1..Len(r[5].rows)} = ModelKeys
    /\ Len(r[5].rows) = Cardinality(ModelKeys)

OnlyError(r) == Len(r) = 1 /\ r[1].kind = "error"

C9_SitesNormalizeAlike ==
    (display.status = "ok" /\ calls # <<>> /\ calls[1].outcome.ok) =>
        /\ \A key \in DOMAIN ThePredictions :
              LET pred == ThePredictions[key]
                  a == analyze_fraud_prob(key, pred)
                  g == plot_fraud_prob(ThePredictions, key)
                  m == metric_probs(ThePredictions, key)
                  t == table_probs(key, pred)
              IN  /\ a.ok /\ g.ok /\ m.ok /\ t.ok
                  /\ a.v = IF key = "svc" THEN pred.fraud ELSE pred.p[2]
                  /\ g.v = a.v /\ m.fraud = a.v /\ t.fraud = a.v
                  /\ m.normal = IF key = "svc" THEN pred.non_fraud ELSE pred.p[1]
                  /\ t.normal = m.normal
        /\ Scored("analyze") =>
              TheAlert.avg = plot_predictions(ThePredictions).fig2.value
        /\ Scored("visualize") =>
              TheGauge.value = AnalyzePath(calls[1].outcome)[1].avg

\* the Visualize path ran on predictions whose mean is above 0.5 although
\* svc reports fraud probability 0
C9_Witness ==
    /\ Scored("visualize")
    /\ TheGauge.red
    /\ ThePredictions["svc"].fraud = 0

(* C10: with the input method and the widget contents unchanged, two        *)
(* successive runs that score a record score the same record.               *)
C10_ScoredRecordDeterminedByInput ==
    [][(calls # <<>> /\ calls' # <<>> /\ widgets' = widgets)
          => calls'[1].record = calls[1].record]_vars

=============================================================================
